---- MODULE Spec2Model ----
(***************************************************************************)
(* Model of the HTTP/1.1+TLS measurement server (cmd/http1-server) and of  *)
(* the stream-split policy of the HTTP/2 page described in the README.     *)
(*                                                                         *)
(* Sizes are byte counts; a path value is a sequence of one-character      *)
(* strings, so that parsing and formatting are computed digit by digit.    *)
(*                                                                         *)
(* A handler is cut into steps at its blocking calls: one step up to the   *)
(* copy loop, one per round of the loop, the last round running on to the  *)
(* handler's return.  Bytes are counted where the handler hands them over: *)
(* what ResponseWriter.Write accepts and what req.Body.Read delivers.      *)
(* The process ends when serveMain returns or exits; nothing runs after.   *)
(***************************************************************************)
EXTENDS Integers, Sequences, FiniteSets, TLC

\* ------------------------------------------------------------------ bounds
\* connections the server accepts
NumConns == 2

\* requests the server dispatches, over all connections
MaxReqs == 2

\* largest stream count tried by the split policy
MaxK == 16

\* ------------------------------------------------------- program constants
BufSize == 1048576

Conns == 1..NumConns

\* ------------------------------------------------- decimal digits, strings
DigitChars == <<"0", "1", "2", "3", "4", "5", "6", "7", "8", "9">>

IsDigit(ch) == \E d \in 1..10 : DigitChars[d] = ch

DigitVal(ch) == (CHOOSE d \in 1..10 : DigitChars[d] = ch) - 1

\* a magnitude is a digit sequence without leading zeros; zero is <<>>
MaxUint64 ==
    <<"1","8","4","4","6","7","4","4","0","7","3","7","0","9","5","5","1","6","1","5">>

Int64Cutoff ==
    <<"9","2","2","3","3","7","2","0","3","6","8","5","4","7","7","5","8","0","8">>

MagGt(a, b) ==
    \/ Len(a) > Len(b)
    \/ /\ Len(a) = Len(b)
       /\ \E i \in 1..Len(a) :
            /\ DigitVal(a[i]) > DigitVal(b[i])
            /\ \A j \in 1..(i - 1) : a[j] = b[j]

MagPush(acc, ch) == IF acc = <<>> /\ ch = "0" THEN <<>> ELSE Append(acc, ch)

RECURSIVE ParseUintFrom(_, _, _)
ParseUintFrom(s, i, acc) ==
    IF i > Len(s) THEN [err |-> "nil", mag |-> acc]
    ELSE IF ~IsDigit(s[i]) THEN [err |-> "syntax", mag |-> <<>>]
    ELSE LET acc2 == MagPush(acc, s[i])
         IN IF MagGt(acc2, MaxUint64)
            THEN [err |-> "range", mag |-> MaxUint64]
            ELSE ParseUintFrom(s, i + 1, acc2)

ParseUint(s) ==
    IF s = <<>> THEN [err |-> "syntax", mag |-> <<>>]
    ELSE ParseUintFrom(s, 1, <<>>)

\* faulty variant: a leading "+" is not taken as a sign
ParseIntNoPlus(s) ==
    IF s = <<>> THEN [err |-> "syntax", neg |-> FALSE, mag |-> <<>>]
    ELSE LET neg == s[1] = "-"
             rest == IF neg THEN Tail(s) ELSE s
             u == ParseUint(rest)
         IN IF u.err = "syntax" THEN [err |-> "syntax", neg |-> FALSE, mag |-> <<>>]
            ELSE IF ~neg /\ ~MagGt(Int64Cutoff, u.mag)
                 THEN [err |-> "range", neg |-> FALSE, mag |-> u.mag]
            ELSE IF neg /\ MagGt(u.mag, Int64Cutoff)
                 THEN [err |-> "range", neg |-> TRUE, mag |-> u.mag]
            ELSE [err |-> "nil", neg |-> neg, mag |-> u.mag]

\* strconv.ParseInt(s, 10, 64): [err, neg, mag], the value being -mag or mag
ParseInt(s) ==
    IF s = <<>> THEN [err |-> "syntax", neg |-> FALSE, mag |-> <<>>]
    ELSE LET neg == s[1] = "-"
             rest == IF s[1] \in {"+", "-"} THEN Tail(s) ELSE s
             u == ParseUint(rest)
         IN IF u.err = "syntax" THEN [err |-> "syntax", neg |-> FALSE, mag |-> <<>>]
            ELSE IF ~neg /\ ~MagGt(Int64Cutoff, u.mag)
                 THEN [err |-> "range", neg |-> FALSE, mag |-> u.mag]
            ELSE IF neg /\ MagGt(u.mag, Int64Cutoff)
                 THEN [err |-> "range", neg |-> TRUE, mag |-> u.mag]
            ELSE [err |-> "nil", neg |-> neg, mag |-> u.mag]

RECURSIVE MagValue(_)
MagValue(m) ==
    IF m = <<>> THEN 0
    ELSE 10 * MagValue(SubSeq(m, 1, Len(m) - 1)) + DigitVal(m[Len(m)])

\* the int64 a successful parse returns
Int64Of(p) == IF p.neg THEN 0 - MagValue(p.mag) ELSE MagValue(p.mag)

RECURSIVE FormatNat(_)
FormatNat(n) ==
    IF n < 10 THEN <<DigitChars[n + 1]>>
    ELSE Append(FormatNat(n \div 10), DigitChars[(n % 10) + 1])

\* strconv.FormatInt(n, 10)
FormatInt(n) == IF n < 0 THEN <<"-">> \o FormatNat(0 - n) ELSE FormatNat(n)

\* faulty variant: the test count < 0 is left out
BadSizeNoSign(p) == p.err # "nil"

\* handleGet/handlePut: err != nil || count < 0
BadSize(p) == p.err # "nil" \/ (p.neg /\ p.mag # <<>>)

\* ------------------------------------------------------------ request inputs
\* path values of {size}: valid ones of at most nine digits, and malformed ones
SizeInputs ==
    { <<"0">>, <<"-", "0">>, <<"1">>, <<"+", "1">>, <<"0", "0", "1">>,
      <<"1","0","4","8","5","7","7">>,
      <<>>, <<"-">>, <<"-", "1">>, <<"a">>, <<"1", "x">>, <<"1", "_", "0">>,
      <<"9","2","2","3","3","7","2","0","3","6","8","5","4","7","7","5","8","0","8">>,
      <<"-","9","2","2","3","3","7","2","0","3","6","8","5","4","7","7","5","8","0","9">>,
      <<"1","8","4","4","6","7","4","4","0","7","3","7","0","9","5","5","1","6","1","6","x">> }

\* number of bytes the client holds in the body of a PUT
BodyInputs == {0, 1, BufSize + 1, BufSize + 2}

\* what the connections beside the first one ask for
SiblingSizes == { <<"1">>, <<"-", "1">> }

SiblingBodies == {1}

SizesOf(c) == IF c = 1 THEN SizeInputs ELSE SiblingSizes

BodiesOf(c) == IF c = 1 THEN BodyInputs ELSE SiblingBodies

\* the parse of every path value, computed once
Parsed == [s \in SizeInputs |-> ParseInt(s)]

\* errors ListenAndServeTLS returns before it serves
StartupErrs == {"bind", "tls"}

\* ------------------------------------------------------------------- state
VARIABLES
    mainPc,     \* serveMain: "start" (about to listen), "listening", "returned", "fatal"
    ctxDone,    \* the parent context is cancelled
    srvClosed,  \* srv.Close() has run
    lsErr,      \* what ListenAndServeTLS returned
    retErr,     \* err as LogFatalOnError0 sees it
    conn,       \* per connection: "none", "open" (StateNew seen), "closed"
    netUp,      \* per connection: the transport still carries bytes
    nreq,       \* requests dispatched to a handler, server-wide
    pc,         \* per connection: handler "idle", "copy" (in the copy loop), "ret"
    meth,       \* per connection: "none", "GET", "PUT"
    count,      \* handler local: count / expectCount
    lim,        \* handler local: LimitedReader.N
    moved,      \* handler local: written / read
    clen,       \* response header Content-Length, <<>> when unset
    status,     \* status of the current response, 0 while none is written
    body,       \* client side: bytes of the request body not yet delivered
    wire,       \* transport side: bytes the response accepted / the body delivered
    asked,      \* highest body offset a Read issued by the handler could reach
    ioErr,      \* the current transfer hit a write or read error
    trace,      \* per connection: its log records and WriteHeader calls, in order
    logCount,   \* per connection: count field of its latest "GET"/"PUT" record
    logBytes,   \* per connection: bytes field of its latest "done" record
    total,      \* split policy: total transfer size
    kreq,       \* split policy: requested stream count
    parts,      \* split policy: the partitions
    splitPc     \* split policy: "off", "new", "planned"

mainVars == <<mainPc, ctxDone, srvClosed, lsErr, retErr>>
connVars == <<conn, netUp, nreq>>
handlerVars == <<pc, meth, count, lim, moved, clen, status>>
ioVars == <<body, wire, asked, ioErr>>
logVars == <<trace, logCount, logBytes>>
splitVars == <<total, kreq, parts, splitPc>>
vars == <<mainVars, connVars, handlerVars, ioVars, logVars, splitVars>>

LogMsgs == {"conn new", "conn closed", "GET", "GET done", "PUT", "PUT done"}

Received == {"GET", "PUT"}

Finished == {"GET done", "PUT done"}

\* the slog records of connection c
ConnLog(c) == SelectSeq(trace[c], LAMBDA m : m \in LogMsgs)

Min(a, b) == IF a < b THEN a ELSE b
Max(a, b) == IF a > b THEN a ELSE b

\* the process runs: serveMain has neither returned nor exited
Alive == mainPc \in {"start", "listening"}

ServerInit ==
    /\ mainPc = "start"
    /\ ctxDone = FALSE
    /\ srvClosed = FALSE
    /\ lsErr = "unset"
    /\ retErr = "unset"
    /\ conn = [c \in Conns |-> "none"]
    /\ netUp = [c \in Conns |-> FALSE]
    /\ nreq = 0
    /\ pc = [c \in Conns |-> "idle"]
    /\ meth = [c \in Conns |-> "none"]
    /\ count = [c \in Conns |-> 0]
    /\ lim = [c \in Conns |-> 0]
    /\ moved = [c \in Conns |-> 0]
    /\ clen = [c \in Conns |-> <<>>]
    /\ status = [c \in Conns |-> 0]
    /\ body = [c \in Conns |-> 0]
    /\ wire = [c \in Conns |-> 0]
    /\ asked = [c \in Conns |-> 0]
    /\ ioErr = [c \in Conns |-> FALSE]
    /\ trace = [c \in Conns |-> <<>>]
    /\ logCount = [c \in Conns |-> 0]
    /\ logBytes = [c \in Conns |-> 0]

SplitOff ==
    /\ total = 0
    /\ kreq = 0
    /\ parts = <<>>
    /\ splitPc = "off"

Init == ServerInit /\ SplitOff

\* --------------------------------------------------------------- serveMain
\* faulty variant: ErrServerClosed is passed on as it is
FinalErrKeep(e) == e

\* errors.Is(err, http.ErrServerClosed) turns the error into nil
FinalErr(e) == IF e = "ErrServerClosed" THEN "nil" ELSE e

\* runtimex.LogFatalOnError0(err); return nil
ExitOf(e) == IF e = "nil" THEN "returned" ELSE "fatal"

\* ListenAndServeTLS binds, loads the TLS material and starts to accept
ListenOk ==
    /\ mainPc = "start"
    /\ ~srvClosed
    /\ mainPc' = "listening"
    /\ UNCHANGED <<ctxDone, srvClosed, lsErr, retErr, connVars, handlerVars, ioVars,
                   logVars, splitVars>>

\* ListenAndServeTLS fails to bind or to load the TLS material; the rest of
\* serveMain runs
ListenFail ==
    /\ mainPc = "start"
    /\ ~srvClosed
    /\ \E e \in StartupErrs :
         /\ lsErr' = e
         /\ retErr' = FinalErr(e)
         /\ mainPc' = ExitOf(FinalErr(e))
    /\ UNCHANGED <<ctxDone, srvClosed, connVars, handlerVars, ioVars, logVars,
                   splitVars>>

\* the parent context is cancelled
Cancel ==
    /\ Alive
    /\ ~ctxDone
    /\ ctxDone' = TRUE
    /\ UNCHANGED <<mainPc, srvClosed, lsErr, retErr, connVars, handlerVars, ioVars,
                   logVars, splitVars>>

\* the goroutine of serveMain: <-ctx.Done(), then srv.Close(), which closes
\* the listener and every connection
SrvClose ==
    /\ Alive
    /\ ctxDone
    /\ ~srvClosed
    /\ srvClosed' = TRUE
    /\ netUp' = [c \in Conns |-> FALSE]
    /\ UNCHANGED <<mainPc, ctxDone, lsErr, retErr, conn, nreq, handlerVars, ioVars,
                   logVars, splitVars>>

\* ListenAndServeTLS returns ErrServerClosed; the rest of serveMain runs and
\* the process ends
ServeReturn ==
    /\ Alive
    /\ srvClosed
    /\ lsErr' = "ErrServerClosed"
    /\ retErr' = FinalErr("ErrServerClosed")
    /\ mainPc' = ExitOf(FinalErr("ErrServerClosed"))
    /\ UNCHANGED <<ctxDone, srvClosed, connVars, handlerVars, ioVars, logVars,
                   splitVars>>

\* ------------------------------------------------------------- connections
\* ConnState hook, http.StateNew
ConnNew(c) ==
    /\ mainPc = "listening"
    /\ ~srvClosed
    /\ conn[c] = "none"
    /\ conn' = [conn EXCEPT ![c] = "open"]
    /\ netUp' = [netUp EXCEPT ![c] = TRUE]
    /\ trace' = [trace EXCEPT ![c] = Append(@, "conn new")]
    /\ UNCHANGED <<mainVars, nreq, handlerVars, ioVars, logCount, logBytes, splitVars>>

\* ConnState hook, http.StateClosed: the connection's goroutine ends, which it
\* does only between requests
ConnClosed(c) ==
    /\ Alive
    /\ conn[c] = "open"
    /\ pc[c] # "copy"
    /\ conn' = [conn EXCEPT ![c] = "closed"]
    /\ netUp' = [netUp EXCEPT ![c] = FALSE]
    /\ trace' = [trace EXCEPT ![c] = Append(@, "conn closed")]
    /\ UNCHANGED <<mainVars, nreq, handlerVars, ioVars, logCount, logBytes, splitVars>>

\* ------------------------------------------------ readers, writers, copying
\* infinite.Reader.Read fills the buffer it is given and never ends
InfiniteRead(len) == len

\* faulty variant: the stream ends one byte early
LimitEofOffByOne(n) == n <= 1

\* io.LimitedReader.Read: end of stream once N <= 0
LimitEof(n) == n <= 0

\* faulty variant: the buffer is not cut to the bytes left
LimitAskNoClamp(len, n) == len

\* io.LimitedReader.Read: the length of the buffer it hands to the reader below
LimitAsk(len, n) == IF len > n THEN n ELSE len

\* faulty variant: one counter shared by all handlers
AddMovedShared(m, c, n) == [d \in Conns |-> m[d] + n]

\* io.CopyBuffer: written += nw, on the handler's own counter
AddMoved(m, c, n) == [m EXCEPT ![c] = @ + n]

\* faulty variant: the requested size is logged
DoneBytesRequested(m, cnt, c) == cnt[c]

\* the bytes field of the "done" record
DoneBytes(m, cnt, c) == m[c]

\* what a failing Write reports as written, for a chunk of nr bytes
ShortCounts(nr) == {0, nr \div 2, nr}

\* what a Read of the body delivers without error: all there is room for, or
\* a single byte as the first segment
ReadCounts(ask, avail, first) ==
    {Min(ask, avail)} \cup (IF first /\ ask >= 1 /\ avail >= 1 THEN {1} ELSE {})

\* -------------------------------------------------------------- handleGet
\* faulty variant: no "GET" record
GetReceivedNone == <<"status 200">>

\* slog.Info("GET", ...), then Header().Set and WriteHeader(200)
GetReceived == <<"GET", "status 200">>

\* a request reaches a handler of connection c
CanServe(c) ==
    /\ Alive
    /\ conn[c] = "open"
    /\ netUp[c]
    /\ pc[c] # "copy"
    /\ nreq < MaxReqs

InCopy(c, m) ==
    /\ Alive
    /\ pc[c] = "copy"
    /\ meth[c] = m

\* handleGet up to the copy loop
GetStart(c, s) ==
    /\ CanServe(c)
    /\ LET p == Parsed[s]
       IN IF BadSize(p)
          THEN /\ count' = [count EXCEPT ![c] = 0]
               /\ lim' = [lim EXCEPT ![c] = 0]
               /\ clen' = [clen EXCEPT ![c] = <<>>]
               /\ status' = [status EXCEPT ![c] = 400]
               /\ pc' = [pc EXCEPT ![c] = "ret"]
               /\ trace' = [trace EXCEPT ![c] = Append(@, "status 400")]
               /\ UNCHANGED logCount
          ELSE /\ count' = [count EXCEPT ![c] = Int64Of(p)]
               /\ lim' = [lim EXCEPT ![c] = Int64Of(p)]
               /\ clen' = [clen EXCEPT ![c] = FormatInt(Int64Of(p))]
               /\ status' = [status EXCEPT ![c] = 200]
               /\ pc' = [pc EXCEPT ![c] = "copy"]
               /\ trace' = [trace EXCEPT ![c] = @ \o GetReceived]
               /\ logCount' = [logCount EXCEPT ![c] = Int64Of(p)]
    /\ nreq' = nreq + 1
    /\ meth' = [meth EXCEPT ![c] = "GET"]
    /\ moved' = [moved EXCEPT ![c] = 0]
    /\ body' = [body EXCEPT ![c] = 0]
    /\ wire' = [wire EXCEPT ![c] = 0]
    /\ asked' = [asked EXCEPT ![c] = 0]
    /\ ioErr' = [ioErr EXCEPT ![c] = FALSE]
    /\ UNCHANGED <<mainVars, conn, netUp, logBytes, splitVars>>

\* one round of the copy loop: a chunk is read and the response takes it whole
GetWriteOk(c) ==
    /\ InCopy(c, "GET")
    /\ ~LimitEof(lim[c])
    /\ netUp[c]
    /\ LET nr == InfiniteRead(LimitAsk(BufSize, lim[c]))
       IN /\ lim' = [lim EXCEPT ![c] = @ - nr]
          /\ moved' = AddMoved(moved, c, nr)
          /\ wire' = [wire EXCEPT ![c] = @ + nr]
    /\ UNCHANGED <<mainVars, connVars, pc, meth, count, clen, status, body, asked,
                   ioErr, logVars, splitVars>>

\* one round of the copy loop whose Write fails; the loop ends and the rest of
\* handleGet runs
GetWriteFail(c) ==
    /\ InCopy(c, "GET")
    /\ ~LimitEof(lim[c])
    /\ LET nr == InfiniteRead(LimitAsk(BufSize, lim[c]))
       IN /\ lim' = [lim EXCEPT ![c] = @ - nr]
          /\ \E nw \in ShortCounts(nr) :
               /\ moved' = AddMoved(moved, c, nw)
               /\ wire' = [wire EXCEPT ![c] = @ + nw]
    /\ ioErr' = [ioErr EXCEPT ![c] = TRUE]
    /\ netUp' = [netUp EXCEPT ![c] = FALSE]
    /\ pc' = [pc EXCEPT ![c] = "ret"]
    /\ trace' = [trace EXCEPT ![c] = Append(@, "GET done")]
    /\ logBytes' = [logBytes EXCEPT ![c] = DoneBytes(moved', count, c)]
    /\ UNCHANGED <<mainVars, conn, nreq, meth, count, clen, status, body, asked,
                   logCount, splitVars>>

\* the limited reader reports the end; the loop ends and the rest of handleGet
\* runs
GetEof(c) ==
    /\ InCopy(c, "GET")
    /\ LimitEof(lim[c])
    /\ pc' = [pc EXCEPT ![c] = "ret"]
    /\ trace' = [trace EXCEPT ![c] = Append(@, "GET done")]
    /\ logBytes' = [logBytes EXCEPT ![c] = DoneBytes(moved, count, c)]
    /\ UNCHANGED <<mainVars, connVars, meth, count, lim, moved, clen, status, ioVars,
                   logCount, splitVars>>

\* -------------------------------------------------------------- handlePut
\* faulty variant: the status is written before the record
PutEndStatusFirst == <<"status 204", "PUT done">>

\* the end of handlePut: the "PUT done" record, then WriteHeader(204)
PutEnd == <<"PUT done", "status 204">>

\* handlePut up to the copy loop; the client holds m bytes of body
PutStart(c, s, m) ==
    /\ CanServe(c)
    /\ LET p == Parsed[s]
       IN IF BadSize(p)
          THEN /\ count' = [count EXCEPT ![c] = 0]
               /\ lim' = [lim EXCEPT ![c] = 0]
               /\ status' = [status EXCEPT ![c] = 400]
               /\ pc' = [pc EXCEPT ![c] = "ret"]
               /\ trace' = [trace EXCEPT ![c] = Append(@, "status 400")]
               /\ UNCHANGED logCount
          ELSE /\ count' = [count EXCEPT ![c] = Int64Of(p)]
               /\ lim' = [lim EXCEPT ![c] = Int64Of(p)]
               /\ status' = [status EXCEPT ![c] = 0]
               /\ pc' = [pc EXCEPT ![c] = "copy"]
               /\ trace' = [trace EXCEPT ![c] = Append(@, "PUT")]
               /\ logCount' = [logCount EXCEPT ![c] = Int64Of(p)]
    /\ nreq' = nreq + 1
    /\ meth' = [meth EXCEPT ![c] = "PUT"]
    /\ moved' = [moved EXCEPT ![c] = 0]
    /\ body' = [body EXCEPT ![c] = m]
    /\ wire' = [wire EXCEPT ![c] = 0]
    /\ asked' = [asked EXCEPT ![c] = 0]
    /\ ioErr' = [ioErr EXCEPT ![c] = FALSE]
    /\ clen' = [clen EXCEPT ![c] = <<>>]
    /\ UNCHANGED <<mainVars, conn, netUp, logBytes, splitVars>>

\* one round of the copy loop: the body delivers n bytes and no error
PutReadData(c) ==
    /\ InCopy(c, "PUT")
    /\ ~LimitEof(lim[c])
    /\ netUp[c]
    /\ body[c] > 0
    /\ LET ask == LimitAsk(BufSize, lim[c])
       IN /\ asked' = [asked EXCEPT ![c] = Max(@, wire[c] + ask)]
          /\ \E n \in ReadCounts(ask, body[c], wire[c] = 0) :
               /\ body' = [body EXCEPT ![c] = @ - n]
               /\ wire' = [wire EXCEPT ![c] = @ + n]
               /\ lim' = [lim EXCEPT ![c] = @ - n]
               /\ moved' = AddMoved(moved, c, n)
    /\ UNCHANGED <<mainVars, connVars, pc, meth, count, clen, status, ioErr, logVars,
                   splitVars>>

\* one round of the copy loop: the body delivers its last bytes (or none) and
\* the end of the stream; the loop ends and the rest of handlePut runs
PutReadEof(c) ==
    /\ InCopy(c, "PUT")
    /\ ~LimitEof(lim[c])
    /\ netUp[c]
    /\ LET ask == LimitAsk(BufSize, lim[c])
       IN /\ body[c] <= ask
          /\ asked' = [asked EXCEPT ![c] = Max(@, wire[c] + ask)]
          /\ body' = [body EXCEPT ![c] = 0]
          /\ wire' = [wire EXCEPT ![c] = @ + body[c]]
          /\ lim' = [lim EXCEPT ![c] = @ - body[c]]
          /\ moved' = AddMoved(moved, c, body[c])
    /\ status' = [status EXCEPT ![c] = 204]
    /\ pc' = [pc EXCEPT ![c] = "ret"]
    /\ trace' = [trace EXCEPT ![c] = @ \o PutEnd]
    /\ logBytes' = [logBytes EXCEPT ![c] = DoneBytes(moved', count, c)]
    /\ UNCHANGED <<mainVars, connVars, meth, count, clen, ioErr, logCount, splitVars>>

\* one round of the copy loop: the body's Read fails, the client being gone;
\* the loop ends and the rest of handlePut runs
PutReadErr(c) ==
    /\ InCopy(c, "PUT")
    /\ ~LimitEof(lim[c])
    /\ LET ask == LimitAsk(BufSize, lim[c])
       IN /\ asked' = [asked EXCEPT ![c] = Max(@, wire[c] + ask)]
          /\ \E n \in {0, Min(ask, body[c]) \div 2} :
               /\ body' = [body EXCEPT ![c] = @ - n]
               /\ wire' = [wire EXCEPT ![c] = @ + n]
               /\ lim' = [lim EXCEPT ![c] = @ - n]
               /\ moved' = AddMoved(moved, c, n)
    /\ ioErr' = [ioErr EXCEPT ![c] = TRUE]
    /\ netUp' = [netUp EXCEPT ![c] = FALSE]
    /\ status' = [status EXCEPT ![c] = 204]
    /\ pc' = [pc EXCEPT ![c] = "ret"]
    /\ trace' = [trace EXCEPT ![c] = @ \o PutEnd]
    /\ logBytes' = [logBytes EXCEPT ![c] = DoneBytes(moved', count, c)]
    /\ UNCHANGED <<mainVars, conn, nreq, meth, count, clen, logCount, splitVars>>

\* the limited reader reports the end without a Read of the body; the loop
\* ends and the rest of handlePut runs
PutLimitEof(c) ==
    /\ InCopy(c, "PUT")
    /\ LimitEof(lim[c])
    /\ status' = [status EXCEPT ![c] = 204]
    /\ pc' = [pc EXCEPT ![c] = "ret"]
    /\ trace' = [trace EXCEPT ![c] = @ \o PutEnd]
    /\ logBytes' = [logBytes EXCEPT ![c] = DoneBytes(moved, count, c)]
    /\ UNCHANGED <<mainVars, connVars, meth, count, lim, moved, clen, ioVars,
                   logCount, splitVars>>

\* ----------------------------------------------------------- specification
Next ==
    \/ ListenOk
    \/ ListenFail
    \/ Cancel
    \/ SrvClose
    \/ ServeReturn
    \/ \E c \in Conns : ConnNew(c)
    \/ \E c \in Conns : ConnClosed(c)
    \/ \E c \in Conns : \E s \in SizesOf(c) : GetStart(c, s)
    \/ \E c \in Conns : GetWriteOk(c)
    \/ \E c \in Conns : GetWriteFail(c)
    \/ \E c \in Conns : GetEof(c)
    \/ \E c \in Conns : \E s \in SizesOf(c), m \in BodiesOf(c) : PutStart(c, s, m)
    \/ \E c \in Conns : PutReadData(c)
    \/ \E c \in Conns : PutReadEof(c)
    \/ \E c \in Conns : PutReadErr(c)
    \/ \E c \in Conns : PutLimitEof(c)

Spec == Init /\ [][Next]_vars

\* the scheduler runs the goroutine that waits for the context, and lets
\* ListenAndServeTLS return once the server is closed
FairSpec == Spec /\ WF_vars(SrvClose) /\ WF_vars(ServeReturn)

\* -------------------------------------------------------- stream splitting
\* total sizes tried, around the threshold and up to the largest 32-bit size
Totals ==
    {0, 1, 268435456, 268435457, 268435463, 1073741824, 1073741827, 2147483647}

\* faulty variant: a threshold of 1 GiB
SplitThresholdGiB == 1024 * 1024 * 1024

\* the README: a transfer is split when its size exceeds 256 MiB
SplitThreshold == 268435456

\* a transfer above the threshold is cut into k contiguous ranges, the last
\* one taking the remainder; any other transfer is one range
Partition(t, k) ==
    IF t > SplitThreshold
    THEN [i \in 1..k |->
            [off |-> (i - 1) * (t \div k),
             len |-> IF i = k THEN (t \div k) + (t % k) ELSE t \div k]]
    ELSE <<[off |-> 0, len |-> t]>>

SplitInit ==
    /\ ServerInit
    /\ total \in Totals
    /\ kreq \in 1..MaxK
    /\ parts = <<>>
    /\ splitPc = "new"

\* the page plans the requests of one transfer
SplitPlan ==
    /\ splitPc = "new"
    /\ parts' = Partition(total, kreq)
    /\ splitPc' = "planned"
    /\ UNCHANGED <<total, kreq, mainVars, connVars, handlerVars, ioVars, logVars>>

SplitNext == SplitPlan

SplitSpec == SplitInit /\ [][SplitNext]_vars

\* ------------------------------------------------------------------ claims
\* the sizes the inputs denote, written out by hand
ValidSize ==
    (<<"0">> :> 0) @@ (<<"-", "0">> :> 0) @@ (<<"1">> :> 1) @@ (<<"+", "1">> :> 1)
    @@ (<<"0", "0", "1">> :> 1) @@ (<<"1","0","4","8","5","7","7">> :> 1048577)

\* the inputs that are negative, non-numeric, empty or outside the int64 range
Malformed == SizeInputs \ DOMAIN ValidSize

CountOf(seq, m) == Cardinality({i \in DOMAIN seq : seq[i] = m})

\* the latest "received" or "done" record of connection c, "" when none
LastReq(c) ==
    LET l == SelectSeq(trace[c], LAMBDA m : m \in Received \cup Finished)
    IN IF l = <<>> THEN "" ELSE l[Len(l)]

\* what a step may change of connection c's transfer
Transfer(c) ==
    <<pc[c], meth[c], count[c], lim[c], moved[c], clen[c], status[c], netUp[c],
      conn[c], body[c], wire[c], ioErr[c], trace[c], logCount[c], logBytes[c]>>

\* C1, at the start of handleGet: a valid size N is answered with status 200
\* and Content-Length N, after the "GET" record and before any body byte
C1_Start ==
    \A c \in Conns :
        (nreq' # nreq /\ trace'[c] # trace[c] /\ meth'[c] = "GET") =>
            \A s \in DOMAIN ValidSize :
                GetStart(c, s) =>
                    /\ count'[c] = ValidSize[s]
                    /\ status'[c] = 200
                    /\ clen'[c] # <<>>
                    /\ \A i \in DOMAIN clen'[c] : IsDigit(clen'[c][i])
                    /\ MagValue(clen'[c]) = ValidSize[s]
                    /\ wire'[c] = 0
                    /\ logCount'[c] = ValidSize[s]
                    /\ trace'[c] = trace[c] \o <<"GET", "status 200">>

\* C1, during and after the copy: never more than N body bytes, the header
\* standing from the first byte on; and with no write error exactly N bytes
\* and one "GET done" record with bytes = N
C1_State ==
    \A c \in Conns :
        (meth[c] = "GET" /\ status[c] = 200) =>
            /\ wire[c] <= count[c]
            /\ MagValue(clen[c]) = count[c]
            /\ pc[c] = "copy" =>
                 /\ LastReq(c) = "GET"
                 /\ CountOf(trace[c], "GET done") + 1 = CountOf(trace[c], "GET")
            /\ (pc[c] = "ret" /\ ~ioErr[c]) =>
                 /\ wire[c] = count[c]
                 /\ logBytes[c] = count[c]
                 /\ LastReq(c) = "GET done"
                 /\ CountOf(trace[c], "GET done") = CountOf(trace[c], "GET")

\* C1: for every valid size N >= 0 and a client that reads the whole
\* response, handleGet answers 200 with Content-Length N set before any body
\* byte, writes exactly N body bytes and then logs one "GET done" with bytes = N
C1_Download == [][C1_Start]_vars /\ []C1_State

C1_Witness ==
    \E c \in Conns :
        /\ meth[c] = "GET" /\ pc[c] = "ret" /\ ~ioErr[c]
        /\ count[c] = 1048577 /\ wire[c] = 1048577 /\ logBytes[c] = 1048577

C2_Start ==
    \A c \in Conns :
        (nreq' # nreq /\ trace'[c] # trace[c] /\ meth'[c] = "PUT") =>
            \A s \in DOMAIN ValidSize :
                PutStart(c, s, body'[c]) =>
                    /\ count'[c] = ValidSize[s]
                    /\ logCount'[c] = ValidSize[s]
                    /\ body'[c] \in BodyInputs
                    /\ wire'[c] = 0
                    /\ status'[c] = 0
                    /\ trace'[c] = Append(trace[c], "PUT")

C2_State ==
    \A c \in Conns :
        (/\ meth[c] = "PUT" /\ pc[c] = "ret" /\ status[c] # 400
         /\ ~ioErr[c] /\ wire[c] + body[c] = count[c]) =>
            /\ wire[c] = count[c]
            /\ body[c] = 0
            /\ logBytes[c] = count[c]
            /\ status[c] = 204
            /\ LastReq(c) = "PUT done"
            /\ CountOf(trace[c], "PUT done") = CountOf(trace[c], "PUT")

\* C2: for every valid size N >= 0, a PUT whose body carries exactly N bytes
\* is drained of all N bytes, logged with one "PUT done" with bytes = N and
\* answered 204
C2_Upload == [][C2_Start]_vars /\ []C2_State

C2_Witness ==
    \E c \in Conns :
        /\ meth[c] = "PUT" /\ pc[c] = "ret" /\ ~ioErr[c] /\ status[c] = 204
        /\ count[c] = 1048577 /\ wire[c] = 1048577 /\ body[c] = 0
        /\ logBytes[c] = 1048577

\* the server goes on as before: nothing but this connection's response changed
C3_Rejected(c) ==
    /\ status'[c] = 400
    /\ pc'[c] = "ret"
    /\ trace'[c] = Append(trace[c], "status 400")
    /\ wire'[c] = 0
    /\ asked'[c] = 0
    /\ moved'[c] = 0
    /\ UNCHANGED <<mainVars, conn, netUp, logCount, logBytes>>
    /\ Alive' /\ conn'[c] = "open" /\ netUp'[c]

\* C3: a size that is negative, non-numeric, empty or outside the int64 range
\* makes handleGet and handlePut answer 400, write no body byte, read no byte
\* of the request body and log neither a "received" nor a "done" record; the
\* server keeps serving
C3_Malformed ==
    [][\A c \in Conns :
          (nreq' # nreq /\ trace'[c] # trace[c]) =>
              \A s \in Malformed :
                  /\ (meth'[c] = "GET" /\ GetStart(c, s)) => C3_Rejected(c)
                  /\ (meth'[c] = "PUT" /\ PutStart(c, s, body'[c])) => C3_Rejected(c)]_vars

\* a connection answered 400 and then served a transfer
C3_Witness ==
    \E c \in Conns :
        /\ Len(trace[c]) >= 3
        /\ trace[c][2] = "status 400"
        /\ trace[c][3] \in Received
        /\ pc[c] = "ret"
        /\ status[c] \in {200, 204}

\* C4: a transfer of requested size N that ends after k < N bytes, on a write
\* error, a read error or the end of a short body, still logs one "done"
\* record, whose bytes field is k and not N, and the handler returns
C4_Partial ==
    \A c \in Conns :
        (pc[c] = "ret" /\ status[c] \in {200, 204} /\ wire[c] < count[c]) =>
            /\ logBytes[c] = wire[c]
            /\ logBytes[c] < count[c]
            /\ LastReq(c) \in Finished
            /\ CountOf(trace[c], "GET done") = CountOf(trace[c], "GET")
            /\ CountOf(trace[c], "PUT done") = CountOf(trace[c], "PUT")

C4_Witness ==
    \E c \in Conns :
        /\ pc[c] = "ret" /\ ioErr[c] /\ meth[c] = "GET"
        /\ count[c] = 1048577 /\ wire[c] = 1048576 /\ logBytes[c] = 1048576

\* C5: handlePut never consumes, nor asks the body for, bytes past the
\* declared size N; a body of M > N bytes is read for exactly N bytes, which
\* "PUT done" reports
C5_Bounded ==
    \A c \in Conns :
        meth[c] = "PUT" =>
            /\ wire[c] <= count[c]
            /\ asked[c] <= count[c]
            /\ (/\ pc[c] = "ret" /\ status[c] = 204 /\ ~ioErr[c]
                /\ wire[c] + body[c] > count[c]) =>
                   (wire[c] = count[c] /\ logBytes[c] = count[c])

C5_Witness ==
    \E c \in Conns :
        /\ meth[c] = "PUT" /\ pc[c] = "ret" /\ status[c] = 204 /\ ~ioErr[c]
        /\ count[c] = 1048577 /\ body[c] = 1 /\ wire[c] = 1048577

\* the records of one connection come in the order new, (received, done)*,
\* closed
WellOrdered(l) ==
    \A i \in DOMAIN l :
        /\ (l[i] = "conn new") <=> (i = 1)
        /\ l[i] = "conn closed" => (i = Len(l) /\ i > 1 /\ l[i - 1] \notin Received)
        /\ l[i] \in Received => (i > 1 /\ l[i - 1] \in {"conn new"} \cup Finished)
        /\ l[i] = "GET done" => (i > 1 /\ l[i - 1] = "GET")
        /\ l[i] = "PUT done" => (i > 1 /\ l[i - 1] = "PUT")

\* every "received" record has its "done" record right after it
AllDone(l) ==
    \A i \in DOMAIN l : l[i] \in Received => (i < Len(l) /\ l[i + 1] \in Finished)

\* C6 as stated: in the log the process leaves behind, the records of every
\* connection are in order and every "received" record is followed by its
\* "done" record
C6_Original ==
    \A c \in Conns :
        /\ WellOrdered(ConnLog(c))
        /\ ~Alive => AllDone(ConnLog(c))

\* C6, amended: the records of every connection are in the order new,
\* (received, done)*, closed, and every "received" record whose handler has
\* returned is followed by exactly one "done" record; the handler still in
\* its copy loop owns the one "received" record without a "done"
C6_Ordered ==
    \A c \in Conns :
        /\ WellOrdered(ConnLog(c))
        /\ pc[c] # "copy" => AllDone(ConnLog(c))
        /\ pc[c] = "copy" =>
             /\ ConnLog(c) # <<>>
             /\ ConnLog(c)[Len(ConnLog(c))] \in Received
             /\ AllDone(SubSeq(ConnLog(c), 1, Len(ConnLog(c)) - 1))

\* a connection that served two transfers and closed
C6_Witness ==
    \E c \in Conns :
        /\ Len(ConnLog(c)) = 6
        /\ ConnLog(c)[6] = "conn closed"

\* C7: ErrServerClosed makes serveMain return nil, any other error of
\* ListenAndServeTLS ends the process; and a cancellation while the server
\* listens leads to the server closed and serveMain returned
C7_Shutdown ==
    /\ [](lsErr = "ErrServerClosed" => (retErr = "nil" /\ mainPc = "returned"))
    /\ [](mainPc = "returned" => (lsErr = "ErrServerClosed" /\ srvClosed /\ ctxDone))
    /\ [](lsErr \in StartupErrs => mainPc = "fatal")
    /\ [](srvClosed => \A c \in Conns : ~netUp[c])
    /\ ((ctxDone /\ mainPc = "listening") ~> (srvClosed /\ mainPc = "returned"))

\* the server was closed under a transfer and serveMain returned
C7_Witness ==
    /\ mainPc = "returned"
    /\ retErr = "nil"
    /\ \E c \in Conns : conn[c] = "open" /\ pc[c] = "copy"

C8_Own ==
    \A c \in Conns :
        /\ moved[c] = wire[c]
        /\ (pc[c] = "ret" /\ status[c] \in {200, 204}) => logBytes[c] = wire[c]

C8_Apart ==
    \A d \in Conns :
        (pc[d] = "copy" /\ Transfer(d)' # Transfer(d) /\ UNCHANGED mainVars) =>
            \A c \in Conns \ {d} : Transfer(c)' = Transfer(c)

\* C8: with transfers interleaved on different connections, each handler
\* counts the bytes of its own transfer only, and a step of one transfer,
\* an I/O error included, changes nothing of another
C8_Isolated == []C8_Own /\ [][C8_Apart]_vars

\* one transfer failed short while another was in its copy loop, bytes moved
C8_Witness ==
    \E c \in Conns : \E d \in Conns \ {c} :
        /\ pc[c] = "copy" /\ wire[c] > 0
        /\ pc[d] = "ret" /\ ioErr[d] /\ wire[d] < count[d]

RECURSIVE SumLen(_)
SumLen(ps) ==
    IF ps = <<>> THEN 0 ELSE ps[1].len + SumLen(Tail(ps))

\* C9: above 256 MiB a transfer of size T is cut into k contiguous ranges
\* that do not overlap and sum to T, the first k - 1 of floor(T / k) bytes
\* and the last taking T mod k more; at or below it there is no splitting
C9_Split ==
    splitPc = "planned" =>
        IF total > 256 * 1024 * 1024
        THEN /\ Len(parts) = kreq
             /\ parts[1].off = 0
             /\ \A i \in 1..(kreq - 1) :
                  /\ parts[i + 1].off = parts[i].off + parts[i].len
                  /\ parts[i].len = total \div kreq
             /\ parts[kreq].len = (total \div kreq) + (total % kreq)
             /\ parts[kreq].off + parts[kreq].len = total
             /\ SumLen(parts) = total
             /\ (total = 1073741824 /\ kreq = 4) =>
                    \A i \in 1..4 : parts[i].len = 268435456
        ELSE parts = <<[off |-> 0, len |-> total]>>

C9_Witness ==
    /\ splitPc = "planned"
    /\ total = 1073741827
    /\ kreq = 4
    /\ parts[4].len = 268435459

\* C10: handlePut writes 204 once per valid request, right after its
\* "PUT done" record and never before, whatever the number of bytes read
C10_Status ==
    \A c \in Conns :
        /\ \A i \in DOMAIN trace[c] :
             /\ trace[c][i] = "status 204" => (i > 1 /\ trace[c][i - 1] = "PUT done")
             /\ trace[c][i] = "PUT done" =>
                  (i < Len(trace[c]) /\ trace[c][i + 1] = "status 204")
        /\ (meth[c] = "PUT" /\ pc[c] = "copy") => status[c] = 0
        /\ (meth[c] = "PUT" /\ pc[c] = "ret" /\ status[c] # 400) =>
             /\ status[c] = 204
             /\ LastReq(c) = "PUT done"
             /\ CountOf(trace[c], "status 204") = CountOf(trace[c], "PUT")

\* a short upload answered 204
C10_Witness ==
    \E c \in Conns :
        /\ meth[c] = "PUT" /\ pc[c] = "ret" /\ status[c] = 204
        /\ ioErr[c] /\ wire[c] < count[c]

====
